---------------------------- MODULE Spec2Model ----------------------------
(***************************************************************************)
(* CacheEntryStatsCollector<Stats> (cache/cache_entry_stats.h).            *)
(*                                                                         *)
(* Threads obtain the shared collector of a statistics kind from a cache   *)
(* with GetShared, hold it through a shared_ptr guard that owns one cache  *)
(* handle, and call GetStats on it.  The cache may erase an entry that has *)
(* no outstanding handle, which runs the entry's Deleter.                  *)
(*                                                                         *)
(* uint64_t values are kept as their residue modulo 2^64 in the window     *)
(* [-2^63, 2^63): a negative integer r stands for the unsigned value       *)
(* 2^64 + r.  Addition, subtraction and multiplication of residues are the *)
(* wrapping operations of the C++ code as long as the results stay in the  *)
(* window, which the bounds on the clock guarantee; comparisons are the    *)
(* unsigned ones (U64Less).  With the clock readings of ClockTimes and a   *)
(* traversal of at most MaxScanSeconds, every difference and product that  *)
(* a GetStats call holding the mutex forms is below 2^31 in magnitude.     *)
(***************************************************************************)
EXTENDS Integers, Sequences, FiniteSets, TLC

-----------------------------------------------------------------------------
(* Bounds of the model *)

\* GetShared calls started in one behaviour
MaxSharedCalls == 3
\* GetStats calls started in one behaviour
MaxStatsCalls == 3
\* longest cache traversal, in seconds, the clock lets a scan take
MaxScanSeconds == 10
\* GetShared and GetStats calls started in one behaviour under fair scheduling
LiveSharedCalls == 3
LiveStatsCalls == 2

Threads == {"t1", "t2"}
Caches == {"c1", "c2"}
Kinds == {"A", "B"}
NoThread == "none"

\* collector objects are numbered in order of construction; 0 is nullptr
CollIds == 1..MaxSharedCalls
\* shared_ptr control blocks; 0 is an empty shared_ptr
GuardIds == 1..Cardinality(Threads)

(* Program constants *)
MicrosPerSecond == 1000000
MinRescanMicros == 1000000
RescanFactor == 100
PessimisticEnd == 10000000
DefaultMaxAge == 180

\* maximum_age_in_seconds arguments of GetStats
Ages == {-1, 0, DefaultMaxAge}
\* readings of SystemClock::NowMicros()
ClockTimes == {0, MicrosPerSecond, PessimisticEnd, 200 * MicrosPerSecond}

-----------------------------------------------------------------------------
(* uint64_t arithmetic on residues *)

U64Sub(a, b) == a - b
U64Mul(a, b) == a * b
\* static_cast<uint64_t>(int): the residue of a negative int is itself
U64FromInt(i) == i
U64Less(a, b) == IF (a >= 0) = (b >= 0) THEN a < b ELSE a >= 0
U64Greater(a, b) == U64Less(b, a)
U64Min(a, b) == IF U64Less(b, a) THEN b ELSE a
U64Max(a, b) == IF U64Less(a, b) THEN b ELSE a
IntMin(a, b) == IF b < a THEN b ELSE a

-----------------------------------------------------------------------------
(* The Stats payload: a value type with the four notifications of the      *)
(* concept.  This one counts the notifications it got and the entries its  *)
(* callback visited, and keeps the times it was given.                     *)

DefaultStats ==
    [begins |-> 0, ends |-> 0, skips |-> 0, entries |-> 0, start |-> 0, end |-> 0]
BeginCollection(s, start_time_micros) ==
    [s EXCEPT !.begins = @ + 1, !.entries = 0, !.start = start_time_micros]
EntryCallback(s) == [s EXCEPT !.entries = @ + 1]
EndCollection(s, end_time_micros) ==
    [s EXCEPT !.ends = @ + 1, !.end = end_time_micros]
SkippedCollection(s) == [s EXCEPT !.skips = @ + 1]

-----------------------------------------------------------------------------
VARIABLES
    table,         \* the caches: table[c][k] is the entry under kind k's key, 0 if none
    refs,          \* refs[x]: outstanding cache handles on collector x's entry
    coll,          \* the collector objects, by number
    mutex,         \* mutex[x]: the thread holding collector x's mutex_
    static_mutex,  \* static_mutex[k]: the thread holding GetShared's static_mutex
    guards,        \* shared_ptr control blocks: the handle's entry and the use count
    ptr,           \* ptr[t]: thread t's shared_ptr (a control block, 0 if empty)
    th,            \* th[t]: where thread t is, and its locals
    status,        \* status[t]: what t's last GetShared returned
    out,           \* out[t]: the Stats t's last GetStats copied out
    now,           \* the last reading of the clock
    calls          \* the calls started so far, and the log of GetStats calls

vars == <<table, refs, coll, mutex, static_mutex, guards, ptr, th, status, out,
          now, calls>>

NoColl == [state |-> "none", cache |-> "c1", kind |-> "A", inserted |-> FALSE,
           deletes |-> 0, saved_stats |-> DefaultStats,
           last_start_time_micros |-> 0, last_end_time_micros |-> 0]

\* CacheEntryStatsCollector(cache, clock)
ConstructSwapped(cache, kind) ==
    [state |-> "alive", cache |-> cache, kind |-> kind, inserted |-> FALSE,
     deletes |-> 0, saved_stats |-> DefaultStats,
     last_start_time_micros |-> PessimisticEnd,
     last_end_time_micros |-> 0]
Construct(cache, kind) ==
    [state |-> "alive", cache |-> cache, kind |-> kind, inserted |-> FALSE,
     deletes |-> 0, saved_stats |-> DefaultStats,
     last_start_time_micros |-> 0,
     last_end_time_micros |-> PessimisticEnd]

IdleLocals == [pc |-> "idle", cache |-> "c1", kind |-> "A", h |-> 0,
               path |-> "none", x |-> 0,
               age |-> 0, start |-> 0, max_age |-> 0, scanned |-> FALSE,
               raced |-> FALSE, pre |-> NoColl]

Init ==
    /\ table = [c \in Caches |-> [k \in Kinds |-> 0]]
    /\ refs = [x \in CollIds |-> 0]
    /\ coll = [x \in CollIds |-> NoColl]
    /\ mutex = [x \in CollIds |-> NoThread]
    /\ static_mutex = [k \in Kinds |-> NoThread]
    /\ guards = [g \in GuardIds |-> [coll |-> 0, count |-> 0]]
    /\ ptr = [t \in Threads |-> 0]
    /\ th = [t \in Threads |-> IdleLocals]
    /\ status = [t \in Threads |-> "none"]
    /\ out = [t \in Threads |-> DefaultStats]
    /\ now = 0
    /\ calls = [shared |-> [t \in Threads |-> 0], stats |-> 0, log |-> <<>>]

-----------------------------------------------------------------------------
(* The cache *)

InTable(tb, cl, x) == tb[cl[x].cache][cl[x].kind] = x

\* Deleter(key, value): delete the collector; the collector keeps count of
\* the times it was deleted
DeleterSkipped(cl, x) == cl
Deleter(cl, x) == [cl EXCEPT ![x].state = "deleted", ![x].deletes = @ + 1]

\* Cache::Release(h): the entry loses a handle; an entry that is no longer in
\* the table is destroyed with its last handle
ReleaseColl(tb, rf, cl, x) ==
    IF rf[x] = 1 /\ ~InTable(tb, cl, x) THEN Deleter(cl, x) ELSE cl

\* Cache::Insert(key, value, charge, deleter, &h), succeeding: the entry takes
\* the key's place with one handle out; an entry it replaces leaves the table
\* and is destroyed once it has no handle
InsertTable(tb, c, k, x) == [tb EXCEPT ![c][k] = x]
InsertColl(tb, rf, cl, c, k, x) ==
    LET old == tb[c][k]
        cl1 == [cl EXCEPT ![x].inserted = TRUE]
    IN  IF old # 0 /\ rf[old] = 0 THEN Deleter(cl1, old) ELSE cl1

\* the number the next constructed collector gets
NewColl == Cardinality({x \in CollIds : coll[x].state # "none"}) + 1

\* the control block a new shared_ptr gets, given the blocks after the
\* assigned-to shared_ptr gave up what it held
FreeGuard(gs) == CHOOSE g \in GuardIds :
                    /\ gs[g].count = 0
                    /\ \A g2 \in GuardIds : gs[g2].count = 0 => g <= g2

RECURSIVE Sum(_, _)
Sum(f, S) == IF S = {} THEN 0
             ELSE LET e == CHOOSE e \in S : TRUE IN f[e] + Sum(f, S \ {e})

\* a shared_ptr gives up what it holds: the use count drops, and the last
\* owner releases the cache handle
Drop(gs, rf, cl, tb, g) ==
    IF g = 0 THEN [guards |-> gs, refs |-> rf, coll |-> cl]
    ELSE IF gs[g].count > 1
    THEN [guards |-> [gs EXCEPT ![g].count = @ - 1], refs |-> rf, coll |-> cl]
    ELSE LET x == gs[g].coll
         IN  [guards |-> [gs EXCEPT ![g] = [coll |-> 0, count |-> 0]],
              refs |-> [rf EXCEPT ![x] = @ - 1],
              coll |-> ReleaseColl(tb, rf, cl, x)]

-----------------------------------------------------------------------------
(* GetShared(cache, clock, ptr) *)

\* the key is the same in every cache and differs from kind to kind, so the
\* entry of a kind is looked up by the kind
Lookup(c, k) == table[c][k]

\* the second Lookup, under static_mutex
LookupAgainMissed(c, k) == 0
LookupAgain(c, k) == Lookup(c, k)

\* leaving the scope of the lock_guard on static_mutex
KeepLocked(k) == static_mutex
Unlock(k) == [static_mutex EXCEPT ![k] = NoThread]

\* the handles on h's entry once the guard is built: the guard owns the one
\* handle GetShared got from Lookup or Insert
HandleReleased(rf, h) == [rf EXCEPT ![h] = @ - 1]
HandleDoubled(rf, h) == [rf EXCEPT ![h] = @ + 1]
HandleKept(rf, h) == rf

GS_Call(t, c, k) ==
    /\ th[t].pc = "idle"
    /\ Sum(calls.shared, Threads) < MaxSharedCalls
    /\ th' = [th EXCEPT ![t] = [IdleLocals EXCEPT !.pc = "gs_lookup",
                                                  !.cache = c, !.kind = k]]
    /\ status' = [status EXCEPT ![t] = "none"]
    /\ calls' = [calls EXCEPT !.shared[t] = @ + 1]
    /\ UNCHANGED <<table, refs, coll, mutex, static_mutex, guards, ptr, out, now>>

\* Cache::Handle *h = cache->Lookup(cache_key); if (h == nullptr) ...
GS_Lookup(t) ==
    /\ th[t].pc = "gs_lookup"
    /\ LET h == Lookup(th[t].cache, th[t].kind)
       IN  IF h # 0
           THEN /\ refs' = [refs EXCEPT ![h] = @ + 1]
                /\ th' = [th EXCEPT ![t].h = h, ![t].pc = "gs_wrap",
                                    ![t].path = "found"]
           ELSE /\ refs' = refs
                /\ th' = [th EXCEPT ![t].pc = "gs_lock"]
    /\ UNCHANGED <<table, coll, mutex, static_mutex, guards, ptr, status, out,
                   now, calls>>

\* STATIC_AVOID_DESTRUCTION(std::mutex, static_mutex): a static local of
\* GetShared, so each instantiation of the template has its own; the
\* lock_guard waits for the one of its kind to be free
StaticMutexIgnored(k) == TRUE
StaticMutexFree(k) == static_mutex[k] = NoThread

\* std::lock_guard<std::mutex> lock(static_mutex);
GS_Lock(t) ==
    /\ th[t].pc = "gs_lock"
    /\ StaticMutexFree(th[t].kind)
    /\ static_mutex' = [static_mutex EXCEPT ![th[t].kind] = t]
    /\ th' = [th EXCEPT ![t].pc = "gs_relookup"]
    /\ UNCHANGED <<table, refs, coll, mutex, guards, ptr, status, out, now, calls>>

\* h = cache->Lookup(cache_key); if (h == nullptr) ...
GS_Relookup(t) ==
    /\ th[t].pc = "gs_relookup"
    /\ LET h == LookupAgain(th[t].cache, th[t].kind)
       IN  IF h # 0
           THEN /\ refs' = [refs EXCEPT ![h] = @ + 1]
                /\ th' = [th EXCEPT ![t].h = h, ![t].pc = "gs_wrap",
                                    ![t].path = "found_again"]
                /\ static_mutex' = Unlock(th[t].kind)
           ELSE /\ refs' = refs
                /\ th' = [th EXCEPT ![t].pc = "gs_insert"]
                /\ static_mutex' = static_mutex
    /\ UNCHANGED <<table, coll, mutex, guards, ptr, status, out, now, calls>>

\* new CacheEntryStatsCollector(cache, clock); cache->Insert(...);
\* if (!s.ok()) return s;
GS_Insert(t, ok) ==
    /\ th[t].pc = "gs_insert"
    /\ LET c == th[t].cache
           k == th[t].kind
           x == NewColl
           made == [coll EXCEPT ![x] = Construct(c, k)]
       IN  IF ok
           THEN /\ table' = InsertTable(table, c, k, x)
                /\ coll' = InsertColl(table, refs, made, c, k, x)
                /\ refs' = [refs EXCEPT ![x] = 1]
                /\ th' = [th EXCEPT ![t].h = x, ![t].pc = "gs_wrap",
                                    ![t].path = "inserted"]
                /\ status' = status
           ELSE /\ table' = table
                /\ coll' = made
                /\ refs' = refs
                /\ th' = [th EXCEPT ![t].h = 0, ![t].pc = "idle",
                                    ![t].path = "insert_failed"]
                /\ status' = [status EXCEPT ![t] = "failed"]
    /\ static_mutex' = Unlock(th[t].kind)
    /\ UNCHANGED <<mutex, guards, ptr, out, now, calls>>

\* *ptr = MakeSharedCacheHandleGuard<CacheEntryStatsCollector>(cache, h);
\* return Status::OK();
GS_Wrap(t) ==
    /\ th[t].pc = "gs_wrap"
    /\ LET h == th[t].h
           d == Drop(guards, HandleKept(refs, h), coll, table, ptr[t])
           g == FreeGuard(d.guards)
       IN  /\ guards' = [d.guards EXCEPT ![g] = [coll |-> h, count |-> 1]]
           /\ refs' = d.refs
           /\ coll' = d.coll
           /\ ptr' = [ptr EXCEPT ![t] = g]
    /\ th' = [th EXCEPT ![t].pc = "idle"]
    /\ status' = [status EXCEPT ![t] = "ok"]
    /\ UNCHANGED <<table, mutex, static_mutex, out, now, calls>>

-----------------------------------------------------------------------------
(* The callers' shared_ptrs, and the cache's eviction *)

\* thread t copies thread u's shared_ptr over its own
GuardCopy(t, u) ==
    /\ t # u
    /\ th[t].pc = "idle" /\ th[u].pc = "idle"
    /\ ptr[u] # 0 /\ ptr[t] # ptr[u]
    /\ LET d == Drop(guards, refs, coll, table, ptr[t])
       IN  /\ guards' = [d.guards EXCEPT ![ptr[u]].count = @ + 1]
           /\ refs' = d.refs
           /\ coll' = d.coll
    /\ ptr' = [ptr EXCEPT ![t] = ptr[u]]
    /\ UNCHANGED <<table, mutex, static_mutex, th, status, out, now, calls>>

\* thread t resets its shared_ptr
GuardReset(t) ==
    /\ th[t].pc = "idle"
    /\ ptr[t] # 0
    /\ LET d == Drop(guards, refs, coll, table, ptr[t])
       IN  /\ guards' = d.guards
           /\ refs' = d.refs
           /\ coll' = d.coll
    /\ ptr' = [ptr EXCEPT ![t] = 0]
    /\ UNCHANGED <<table, mutex, static_mutex, th, status, out, now, calls>>

\* the cache evicts or erases the entry of kind k: only an entry with no
\* outstanding handle goes, and its Deleter runs
Evict(c, k) ==
    /\ table[c][k] # 0
    /\ refs[table[c][k]] = 0
    /\ table' = [table EXCEPT ![c][k] = 0]
    /\ coll' = Deleter(coll, table[c][k])
    /\ UNCHANGED <<refs, mutex, static_mutex, guards, ptr, th, status, out, now,
                   calls>>

-----------------------------------------------------------------------------
(* GetStats(stats, maximum_age_in_seconds) *)

\* max_age_micros, as the two assignments to it compute it
MaxAgeMicrosWidest(maximum_age_in_seconds, last_start, last_end) ==
    U64Max(U64Mul(U64FromInt(IntMin(maximum_age_in_seconds, 0)), MicrosPerSecond),
           U64Max(MinRescanMicros,
                  U64Mul(RescanFactor, U64Sub(last_end, last_start))))
MaxAgeMicros(maximum_age_in_seconds, last_start, last_end) ==
    U64Min(U64Mul(U64FromInt(IntMin(maximum_age_in_seconds, 0)), MicrosPerSecond),
           U64Max(MinRescanMicros,
                  U64Mul(RescanFactor, U64Sub(last_end, last_start))))

\* if ((start_time_micros - last_end_time_micros_) > max_age_micros)
ShouldScan(start_time_micros, last_end, max_age_micros) ==
    U64Greater(U64Sub(start_time_micros, last_end), max_age_micros)

\* std::lock_guard<std::mutex> lock(mutex_) waits for the mutex to be free;
\* mutex_ is a member of the collector
MutexIgnored(x) == TRUE
MutexOfAll(x) == \A y \in CollIds : mutex[y] = NoThread
MutexFree(x) == mutex[x] = NoThread

\* cache_->ApplyToAllEntries(callback, {}): the callback runs once for each
\* entry of the cache
RECURSIVE ApplyToAllEntries(_, _)
ApplyToAllEntries(s, n) ==
    IF n = 0 THEN s ELSE ApplyToAllEntries(EntryCallback(s), n - 1)
NumEntries(c) == Cardinality({k \in Kinds : table[c][k] # 0})

\* a reading the clock may give: not before the last one, and not so late
\* that a traversal under way would have taken longer than MaxScanSeconds
Scanning == {t \in Threads : th[t].pc \in {"st_traverse", "st_end"}}
ClockMayRead(r) ==
    /\ r \in ClockTimes
    /\ r >= now
    /\ \A t \in Scanning : r - th[t].start <= MaxScanSeconds * MicrosPerSecond

\* thread u is inside GetStats
InGetStats(u) ==
    th[u].pc \in {"st_lock", "st_check", "st_traverse", "st_end", "st_copy"}

\* a call of GetStats; the locals note whether another call on the same
\* collector was under way at any time during this one
ST_Call(t, age) ==
    /\ th[t].pc = "idle"
    /\ ptr[t] # 0
    /\ calls.stats < MaxStatsCalls
    /\ LET x == guards[ptr[t]].coll
           others == {u \in Threads \ {t} : InGetStats(u) /\ th[u].x = x}
       IN  th' = [u \in Threads |->
                    IF u = t
                    THEN [IdleLocals EXCEPT !.pc = "st_lock", !.x = x,
                                            !.cache = th[t].cache,
                                            !.kind = th[t].kind,
                                            !.age = age, !.raced = others # {}]
                    ELSE IF u \in others THEN [th[u] EXCEPT !.raced = TRUE]
                    ELSE th[u]]
    /\ calls' = [calls EXCEPT !.stats = @ + 1]
    /\ UNCHANGED <<table, refs, coll, mutex, static_mutex, guards, ptr, status,
                   out, now>>

ST_Lock(t) ==
    /\ th[t].pc = "st_lock"
    /\ MutexFree(th[t].x)
    /\ mutex' = [mutex EXCEPT ![th[t].x] = t]
    /\ th' = [th EXCEPT ![t].pc = "st_check"]
    /\ UNCHANGED <<table, refs, coll, static_mutex, guards, ptr, status, out,
                   now, calls>>

\* max_age_micros, start_time_micros, and the branch taken: either
\* last_start_time_micros_ is set and BeginCollection called, or
\* SkippedCollection is called
ST_Check(t, r) ==
    /\ th[t].pc = "st_check"
    /\ ClockMayRead(r)
    /\ now' = r
    /\ LET x == th[t].x
           max_age_micros == MaxAgeMicros(th[t].age,
                                          coll[x].last_start_time_micros,
                                          coll[x].last_end_time_micros)
       IN  IF ShouldScan(r, coll[x].last_end_time_micros, max_age_micros)
           THEN /\ coll' = [coll EXCEPT
                      ![x].last_start_time_micros = r,
                      ![x].saved_stats = BeginCollection(@, r)]
                /\ th' = [th EXCEPT ![t].pc = "st_traverse", ![t].start = r,
                                    ![t].max_age = max_age_micros,
                                    ![t].scanned = TRUE, ![t].pre = coll[x]]
           ELSE /\ coll' = [coll EXCEPT
                      ![x].saved_stats = SkippedCollection(@)]
                /\ th' = [th EXCEPT ![t].pc = "st_copy", ![t].start = r,
                                    ![t].max_age = max_age_micros,
                                    ![t].scanned = FALSE, ![t].pre = coll[x]]
    /\ UNCHANGED <<table, refs, mutex, static_mutex, guards, ptr, status, out,
                   calls>>

ST_Traverse(t) ==
    /\ th[t].pc = "st_traverse"
    /\ LET x == th[t].x
       IN  coll' = [coll EXCEPT ![x].saved_stats =
                        ApplyToAllEntries(@, NumEntries(coll[x].cache))]
    /\ th' = [th EXCEPT ![t].pc = "st_end"]
    /\ UNCHANGED <<table, refs, mutex, static_mutex, guards, ptr, status, out,
                   now, calls>>

\* end_time_micros, last_end_time_micros_ and EndCollection
ST_End(t, r) ==
    /\ th[t].pc = "st_end"
    /\ ClockMayRead(r)
    /\ now' = r
    /\ LET x == th[t].x
       IN  coll' = [coll EXCEPT
                      ![x].last_end_time_micros = r,
                      ![x].saved_stats = EndCollection(@, r)]
    /\ th' = [th EXCEPT ![t].pc = "st_copy"]
    /\ UNCHANGED <<table, refs, mutex, static_mutex, guards, ptr, status, out,
                   calls>>

\* *stats = saved_stats_; and the lock_guard on mutex_ goes out of scope
ST_Copy(t) ==
    /\ th[t].pc = "st_copy"
    /\ LET x == th[t].x
       IN  /\ out' = [out EXCEPT ![t] = coll[x].saved_stats]
           /\ mutex' = [mutex EXCEPT ![x] = NoThread]
           /\ calls' = [calls EXCEPT !.log = Append(@,
                  [t |-> t, x |-> x, age |-> th[t].age, start |-> th[t].start,
                   max_age |-> th[t].max_age, scanned |-> th[t].scanned,
                   raced |-> th[t].raced,
                   pre |-> th[t].pre, stats |-> coll[x].saved_stats])]
    /\ th' = [th EXCEPT ![t].pc = "idle"]
    /\ UNCHANGED <<table, refs, coll, static_mutex, guards, ptr, status, now>>

-----------------------------------------------------------------------------
(* Specifications *)

\* the caches and kinds GetShared is called with: two kinds sharing one
\* cache, and one kind used on two caches
SharedPairs == {<<"c1", "A">>, <<"c1", "B">>, <<"c2", "A">>}

SharedStep ==
    \E t \in Threads :
        \/ \E p \in SharedPairs : GS_Call(t, p[1], p[2])
        \/ GS_Lookup(t)
        \/ GS_Lock(t)
        \/ GS_Relookup(t)
        \/ \E ok \in BOOLEAN : GS_Insert(t, ok)
        \/ GS_Wrap(t)

GuardStep ==
    \/ \E t \in Threads, u \in Threads : GuardCopy(t, u)
    \/ \E t \in Threads : GuardReset(t)
    \/ \E c \in Caches, k \in Kinds : Evict(c, k)

StatsStep ==
    \E t \in Threads :
        \/ \E age \in Ages : ST_Call(t, age)
        \/ ST_Lock(t)
        \/ \E r \in ClockTimes : ST_Check(t, r)
        \/ ST_Traverse(t)
        \/ \E r \in ClockTimes : ST_End(t, r)
        \/ ST_Copy(t)

Next == SharedStep \/ GuardStep \/ StatsStep

Spec == Init /\ [][Next]_vars

\* GetShared, the callers' shared_ptrs and eviction, on every cache and kind
NextShared == SharedStep \/ GuardStep

SpecShared == Init /\ [][NextShared]_vars

\* GetStats on the collector of kind A in cache c1: each thread gets the
\* collector once and keeps its shared_ptr, and the cache takes every Insert
StatsGetShared ==
    \E t \in Threads :
        \/ ptr[t] = 0 /\ GS_Call(t, "c1", "A")
        \/ GS_Lookup(t)
        \/ GS_Lock(t)
        \/ GS_Relookup(t)
        \/ GS_Insert(t, TRUE)
        \/ GS_Wrap(t)

NextStats == StatsGetShared \/ StatsStep

SpecStats == Init /\ [][NextStats]_vars

\* GetStats on the collectors of several caches and kinds: each thread gets
\* one collector and calls GetStats with the default maximum age, within
\* the first second of the clock
IndepTimes == {0, MicrosPerSecond}

IndepGetShared ==
    \E t \in Threads :
        \/ \E p \in SharedPairs : ptr[t] = 0 /\ GS_Call(t, p[1], p[2])
        \/ GS_Lookup(t)
        \/ GS_Lock(t)
        \/ GS_Relookup(t)
        \/ GS_Insert(t, TRUE)
        \/ GS_Wrap(t)

IndepStats ==
    \E t \in Threads :
        \/ ST_Call(t, DefaultMaxAge)
        \/ ST_Lock(t)
        \/ \E r \in IndepTimes : ST_Check(t, r)
        \/ ST_Traverse(t)
        \/ \E r \in IndepTimes : ST_End(t, r)
        \/ ST_Copy(t)

NextIndep == IndepGetShared \/ IndepStats

SpecIndep == Init /\ [][NextIndep]_vars

-----------------------------------------------------------------------------
(* What the claims speak of *)

Pairs == Caches \X Kinds
\* the collectors constructed so far for cache c and kind k
Constructed(c, k) ==
    {x \in CollIds : coll[x].state # "none" /\ coll[x].cache = c /\ coll[x].kind = k}
\* those that entered the cache, those whose Insert failed, those destroyed
Inserted(c, k) == {x \in Constructed(c, k) : coll[x].inserted}
NeverInserted(c, k) == {x \in Constructed(c, k) : ~coll[x].inserted}
Destroyed(c, k) == {x \in Constructed(c, k) : coll[x].state = "deleted"}
\* the control blocks in use, and those on a collector of cache c and kind k
LiveGuards == {g \in GuardIds : guards[g].count > 0}
GuardsOf(c, k) ==
    {g \in LiveGuards : coll[guards[g].coll].cache = c /\ coll[guards[g].coll].kind = k}
\* every thread is in, or has returned from, at most its first GetShared call
FirstCallsOnly == \A t \in Threads : calls.shared[t] <= 1

-----------------------------------------------------------------------------
(* C1 *)

\* C1, as stated: while the threads make their first GetShared calls and no
\* entry has been evicted, at most one collector is constructed for a cache
\* and kind, and all guards on that cache and kind refer to the same one.
C1_ConstructedOnce ==
    \A p \in Pairs :
        (FirstCallsOnly /\ Destroyed(p[1], p[2]) = {}) =>
            /\ Cardinality(Constructed(p[1], p[2])) <= 1
            /\ \A g1, g2 \in GuardsOf(p[1], p[2]) : guards[g1].coll = guards[g2].coll

\* C1, amended: as long as no entry of the cache and kind has been evicted,
\* at most one of the collectors constructed has entered the cache (any other
\* is one whose Insert failed), every guard returned with OK refers to the
\* one that entered the cache, and it is the entry under the key.
C1_InsertedOnce ==
    \A p \in Pairs :
        Destroyed(p[1], p[2]) = {} =>
            /\ Cardinality(Inserted(p[1], p[2])) <= 1
            /\ \A g \in GuardsOf(p[1], p[2]) :
                   /\ Inserted(p[1], p[2]) = {guards[g].coll}
                   /\ table[p[1]][p[2]] = guards[g].coll

\* C1 witness: two threads raced on their first calls for one cache and kind:
\* one constructed and inserted the collector, the other missed it in the
\* first Lookup and found it under the lock; both returned OK with guards on
\* the one collector constructed.
C1_Witness ==
    \E t, u \in Threads :
        /\ FirstCallsOnly
        /\ th[t].pc = "idle" /\ th[u].pc = "idle"
        /\ status[t] = "ok" /\ status[u] = "ok"
        /\ th[t].path = "inserted" /\ th[u].path = "found_again"
        /\ th[t].cache = th[u].cache /\ th[t].kind = th[u].kind
        /\ ptr[t] # 0 /\ ptr[u] # 0 /\ ptr[t] # ptr[u]
        /\ guards[ptr[t]].coll = guards[ptr[u]].coll
        /\ Cardinality(Constructed(th[t].cache, th[t].kind)) = 1

-----------------------------------------------------------------------------
(* C8 *)

\* C8: a collector that a guard, or a copy of one, still refers to has not
\* been destroyed.
C8_NoDestroyWhileGuarded ==
    \A g \in LiveGuards : coll[guards[g].coll].state = "alive"

\* C8 witness: a guard and its copy are outstanding on a live collector whose
\* entry has no other handle, after the cache has evicted another collector.
C8_Witness ==
    \E g \in LiveGuards :
        /\ guards[g].count = 2
        /\ coll[guards[g].coll].state = "alive"
        /\ refs[guards[g].coll] = 1
        /\ \E x \in CollIds : coll[x].state = "deleted"

-----------------------------------------------------------------------------
(* C10 *)

\* the step in which thread t returns from GetShared with Insert's failure
InsertFailed(t) == th[t].pc = "gs_insert" /\ th'[t].pc = "idle"

\* C10: when Insert fails, GetShared returns the failure, leaves the caller's
\* shared_ptr as it was, holds no handle, leaves no entry under the key and
\* has released static_mutex.
C10_InsertFailure ==
    [][\A t \in Threads :
          InsertFailed(t) =>
              /\ status'[t] = "failed"
              /\ ptr'[t] = ptr[t] /\ guards' = guards
              /\ th'[t].h = 0 /\ refs' = refs
              /\ table'[th[t].cache][th[t].kind] = 0
              /\ static_mutex'[th[t].kind] = NoThread]_vars

\* C10 witness: a GetShared call returned OK with the collector it inserted,
\* after an earlier Insert for the same cache and kind had failed.
C10_Witness ==
    \E t \in Threads :
        /\ status[t] = "ok" /\ th[t].pc = "idle" /\ th[t].path = "inserted"
        /\ ptr[t] # 0
        /\ NeverInserted(th[t].cache, th[t].kind) # {}
        /\ \A y \in NeverInserted(th[t].cache, th[t].kind) : y < guards[ptr[t]].coll

-----------------------------------------------------------------------------
(* GetStats: the log of completed calls.  Entry e is a call by thread e.t  *)
(* on collector e.x with maximum_age_in_seconds e.age; e.start is its      *)
(* first clock reading, e.max_age the max_age_micros it compared against,  *)
(* e.scanned the branch it took, e.pre the collector as the call found it  *)
(* and e.stats the value it copied out.                                    *)

Log == calls.log
LogIdx == DOMAIN Log
\* the staleness bound the specification states, in microseconds
StatedBound(age, last_start, last_end) ==
    LET a == age * MicrosPerSecond
        d == RescanFactor * (last_end - last_start)
        m == IF d > MinRescanMicros THEN d ELSE MinRescanMicros
    IN  IF a < m THEN a ELSE m
\* two Stats values agree but for the SkippedCollection notifications
SameSnapshot(s1, s2) == [s1 EXCEPT !.skips = 0] = [s2 EXCEPT !.skips = 0]
\* call i is the first ever on its collector
FirstEver(i) == \A j \in LogIdx : j < i => Log[j].x # Log[i].x
\* call j is the last call before call i that scanned the same collector
LastScanBefore(i, j) ==
    /\ j \in LogIdx /\ j < i /\ Log[j].x = Log[i].x /\ Log[j].scanned
    /\ \A m \in LogIdx : (j < m /\ m < i /\ Log[m].x = Log[i].x) => ~Log[m].scanned
\* call i found a collector that had completed a scan
AfterAScan(i) == Log[i].pre.saved_stats.ends >= 1
\* how long after the end of the previous scan call i read the clock
SinceLastEnd(i) == Log[i].start - Log[i].pre.last_end_time_micros
\* call i made exactly one scan: one BeginCollection, one traversal of the
\* cache's entries, one EndCollection, no SkippedCollection
ScannedOnce(i) ==
    LET e == Log[i]
    IN  /\ e.scanned
        /\ e.stats.begins = e.pre.saved_stats.begins + 1
        /\ e.stats.ends = e.pre.saved_stats.ends + 1
        /\ e.stats.skips = e.pre.saved_stats.skips
        /\ e.stats.entries = 1
        /\ e.stats.start = e.start /\ e.stats.end >= e.start

-----------------------------------------------------------------------------
(* C2 *)

\* thread u is inside the critical section of GetStats
InCritical(u) == th[u].pc \in {"st_check", "st_traverse", "st_end", "st_copy"}

\* C2, as stated, for the calls with a non-negative maximum age: the value a
\* call copies out is no scan in progress; it is the result of the scan the
\* call made, or the result of the most recent scan completed before it.
C2_ScanResultOnly ==
    \A i \in LogIdx :
        /\ Log[i].stats.begins = Log[i].stats.ends
        /\ Log[i].scanned => Log[i].stats.start = Log[i].start
        /\ (~Log[i].scanned /\ Log[i].age >= 0) =>
              \E j \in LogIdx : /\ LastScanBefore(i, j)
                                /\ SameSnapshot(Log[i].stats, Log[j].stats)

-----------------------------------------------------------------------------
(* C3 *)

\* C3, as stated: the first call ever made on a collector, with a
\* non-negative maximum age, makes exactly one scan whatever the clock reads.
C3_FirstCallScans ==
    \A i \in LogIdx :
        (FirstEver(i) /\ Log[i].age >= 0) =>
            ScannedOnce(i) /\ Log[i].stats.begins = 1 /\ Log[i].stats.skips = 0

-----------------------------------------------------------------------------
(* C4 *)

\* C4, as stated: a call that finds a completed scan and reads the clock
\* within the stated bound of that scan's end calls SkippedCollection, does
\* not traverse, and copies out the previous snapshot.
C4_SkipWithinBound ==
    \A i \in LogIdx :
        LET e == Log[i]
        IN  (/\ e.age >= 0 /\ AfterAScan(i)
             /\ SinceLastEnd(i) <= StatedBound(e.age, e.pre.last_start_time_micros,
                                               e.pre.last_end_time_micros)) =>
                /\ ~e.scanned
                /\ e.stats = SkippedCollection(e.pre.saved_stats)

-----------------------------------------------------------------------------
(* C5 *)

\* the calls on collector x
CallsOn(x) == {i \in LogIdx : Log[i].x = x}
\* C5, as stated: when calls by different threads on one collector overlap
\* and all read the clock within the stated bound of the end of the first
\* one's scan, one traversal is made in total and all copy out one snapshot.
C5_OneScanPerWindow ==
    \A x \in CollIds :
        \A f \in CallsOn(x) :
            (/\ FirstEver(f) /\ Log[f].scanned
             /\ \A i, j \in CallsOn(x) : i # j => Log[i].t # Log[j].t
             /\ \A i \in CallsOn(x) :
                   /\ Log[i].raced /\ Log[i].age >= 0
                   /\ i # f =>
                        Log[i].start - Log[f].stats.end
                          <= StatedBound(Log[i].age, Log[f].stats.start,
                                         Log[f].stats.end)) =>
                /\ Cardinality({i \in CallsOn(x) : Log[i].scanned}) = 1
                /\ \A i \in CallsOn(x) : SameSnapshot(Log[i].stats, Log[f].stats)

-----------------------------------------------------------------------------
(* C6 *)

\* C6, as stated: with a non-negative maximum age, the bound a call compares
\* against is min(maximum age, max(1 second, 100 x the last scan's
\* duration)) in microseconds.
C6_BoundAsStated ==
    \A i \in LogIdx :
        Log[i].age >= 0 =>
            Log[i].max_age = StatedBound(Log[i].age,
                                         Log[i].pre.last_start_time_micros,
                                         Log[i].pre.last_end_time_micros)

-----------------------------------------------------------------------------
(* C7 *)

\* C7: a call that finds a completed scan and reads the clock later than
\* that scan's end by more than the stated bound makes exactly one new scan
\* and copies out its result.
C7_ScanAfterBound ==
    \A i \in LogIdx :
        LET e == Log[i]
        IN  (/\ e.age >= 0 /\ AfterAScan(i)
             /\ SinceLastEnd(i) > StatedBound(e.age, e.pre.last_start_time_micros,
                                              e.pre.last_end_time_micros)) =>
                ScannedOnce(i)

\* C7 witness: with a maximum age of 180 seconds, a scan that ran from 0 to
\* 10 seconds and a second call at 200 seconds, which scanned.
C7_Witness ==
    \E i \in LogIdx :
        /\ Log[i].age = DefaultMaxAge /\ AfterAScan(i)
        /\ Log[i].pre.last_start_time_micros = 0
        /\ Log[i].pre.last_end_time_micros = 10 * MicrosPerSecond
        /\ Log[i].start = 200 * MicrosPerSecond
        /\ ScannedOnce(i) /\ Log[i].stats.begins = 2

-----------------------------------------------------------------------------
(* C9 *)

\* C9: the guard GetShared returned for a cache and kind refers to a
\* collector of that cache and kind, so guards for different caches or kinds
\* refer to different collectors; and a GetStats call waiting for its
\* collector's mutex can take it whenever no thread is in the critical
\* section of that same collector, whatever goes on in other collectors.
C9_Independent ==
    /\ \A t \in Threads :
          ptr[t] # 0 =>
              /\ coll[guards[ptr[t]].coll].cache = th[t].cache
              /\ coll[guards[ptr[t]].coll].kind = th[t].kind
    /\ \A t, u \in Threads :
          (ptr[t] # 0 /\ ptr[u] # 0
           /\ <<th[t].cache, th[t].kind>> # <<th[u].cache, th[u].kind>>) =>
              guards[ptr[t]].coll # guards[ptr[u]].coll
    /\ \A t \in Threads :
          (/\ th[t].pc = "st_lock"
           /\ \A u \in Threads : InCritical(u) => th[u].x # th[t].x) =>
              ENABLED ST_Lock(t)

\* C9 witness: thread t is scanning the collector of one kind, having begun
\* at clock 0, and thread u has meanwhile completed a GetStats call that
\* scanned the collector of another kind in the same cache at clock 1 second.
C9_Witness ==
    \E t, u \in Threads :
        /\ th[t].pc = "st_traverse" /\ th[t].start = 0
        /\ th[u].pc = "idle" /\ ptr[u] # 0
        /\ th[t].cache = th[u].cache /\ th[t].kind # th[u].kind
        /\ guards[ptr[u]].coll # th[t].x
        /\ \E i \in LogIdx :
              /\ Log[i].t = u /\ Log[i].x = guards[ptr[u]].coll
              /\ Log[i].start = MicrosPerSecond /\ Log[i].scanned
        /\ out[u].ends = 1

-----------------------------------------------------------------------------
(* C11 *)

\* C11, as stated: leaving aside the collectors whose Insert failed, no
\* sequence of GetShared calls, guard releases and evictions constructs a
\* second collector for a cache and kind.
C11_ConstructedOnceEver ==
    \A p \in Pairs :
        NeverInserted(p[1], p[2]) = {} =>
            Cardinality(Constructed(p[1], p[2])) <= 1

\* C11, amended: GetShared constructs a collector for a cache and kind only
\* when no entry is under the key: every collector that entered the cache
\* before a later one of its cache and kind was constructed had been evicted
\* and destroyed by then, and the entry under the key is the latest inserted.
C11_ConstructedAgainOnlyAfterEviction ==
    \A p \in Pairs :
        /\ \A x, y \in Constructed(p[1], p[2]) :
              (x < y /\ coll[x].inserted) => coll[x].state = "deleted"
        /\ \A x \in Inserted(p[1], p[2]) :
              coll[x].state = "alive" => table[p[1]][p[2]] = x

\* C11 witness: with no Insert having failed, a GetShared call returned OK
\* with a second collector it constructed and inserted for a cache and kind
\* whose first collector was evicted after all its guards were released.
C11_Witness ==
    \E t \in Threads :
        LET c == th[t].cache
            k == th[t].kind
        IN  /\ th[t].pc = "idle" /\ status[t] = "ok" /\ th[t].path = "inserted"
            /\ ptr[t] # 0
            /\ \A q \in Pairs : NeverInserted(q[1], q[2]) = {}
            /\ Cardinality(Constructed(c, k)) = 2
            /\ \E x \in Constructed(c, k) :
                  /\ x < guards[ptr[t]].coll
                  /\ coll[x].inserted /\ coll[x].state = "deleted"
            /\ table[c][k] = guards[ptr[t]].coll
            /\ coll[guards[ptr[t]].coll].state = "alive"

-----------------------------------------------------------------------------
(* C12 *)

\* the collectors of cache c and kind k constructed and not destroyed
Alive(c, k) == {x \in Constructed(c, k) : coll[x].state = "alive"}

\* C12, as stated: at most one collector of a kind is alive for a cache.
C12_OneAlive ==
    \A p \in Pairs : Cardinality(Alive(p[1], p[2])) <= 1

-----------------------------------------------------------------------------
(* C13 *)

\* the threads that are in GetShared with a handle on collector x they have
\* not yet put into a guard
Wrapping(x) == {t \in Threads : th[t].pc = "gs_wrap" /\ th[t].h = x}
\* the control blocks in use on collector x
GuardsOn(x) == {g \in LiveGuards : guards[g].coll = x}
\* collector x entered the cache, and no guard nor copy of a guard is left
\* on it
AllReleased(x) ==
    /\ coll[x].state # "none" /\ coll[x].inserted
    /\ GuardsOn(x) = {} /\ Wrapping(x) = {}

\* C13: a collector that entered the cache and has no guard left has no
\* outstanding handle; it is then either still the entry under its key, and
\* the cache may evict it, or it has been evicted and its Deleter has run;
\* and Deleter runs on a collector exactly once, when its entry goes.
C13_EvictableAfterRelease ==
    /\ \A x \in CollIds :
          AllReleased(x) =>
              /\ refs[x] = 0
              /\ IF coll[x].state = "alive"
                 THEN /\ InTable(table, coll, x)
                      /\ ENABLED Evict(coll[x].cache, coll[x].kind)
                 ELSE /\ ~InTable(table, coll, x)
                      /\ coll[x].state = "deleted"
    /\ \A x \in CollIds :
          /\ coll[x].deletes <= 1
          /\ (coll[x].state = "deleted") = (coll[x].deletes = 1)
          /\ coll[x].state = "deleted" => coll[x].inserted /\ refs[x] = 0

\* C13 witness: a collector whose guards have all been released has been
\* evicted and destroyed once, and another collector with no guard left is
\* still in the cache, where it may be evicted.
C13_Witness ==
    \E x, y \in CollIds :
        /\ x # y
        /\ AllReleased(x) /\ coll[x].state = "deleted" /\ coll[x].deletes = 1
        /\ AllReleased(y) /\ coll[y].state = "alive"
        /\ ENABLED Evict(coll[y].cache, coll[y].kind)

-----------------------------------------------------------------------------
(* C14 *)

\* the shared_ptrs that share control block g
CopiesOf(g) == {t \in Threads : ptr[t] = g}

\* C14: the cache handles out on a collector's entry are one for each
\* GetShared result that still has a live copy, and one for each GetShared
\* call that has got its handle from Lookup or Insert and is about to wrap
\* it; the copies of a result share its one handle.
C14_OneHandlePerResult ==
    /\ \A x \in CollIds :
          refs[x] = Cardinality(GuardsOn(x)) + Cardinality(Wrapping(x))
    /\ \A g \in GuardIds : guards[g].count = Cardinality(CopiesOf(g))
    /\ (\A t \in Threads : th[t].pc # "gs_wrap") =>
          \A x \in CollIds : refs[x] = Cardinality(GuardsOn(x))

\* C14 witness: a thread that never called GetShared holds the last copy of
\* a guard that the thread which got it has dropped since, and the entry
\* still has the one handle.
C14_Witness ==
    \E t, u \in Threads :
        /\ t # u
        /\ th[t].pc = "idle" /\ th[u].pc = "idle"
        /\ status[t] = "ok" /\ ptr[t] = 0
        /\ calls.shared[u] = 0 /\ ptr[u] # 0
        /\ guards[ptr[u]].count = 1
        /\ refs[guards[ptr[u]].coll] = 1
        /\ coll[guards[ptr[u]].coll].state = "alive"

-----------------------------------------------------------------------------
(* C15 *)

\* no thread is inside the critical section of GetStats on collector x
Quiescent(x) == \A u \in Threads : InCritical(u) => th[u].x # x

\* C15: with a clock that never goes back, whenever no thread is inside the
\* critical section of a collector, its last end time is not before its last
\* start time, as uint64_t values.
C15_EndNotBeforeStart ==
    \A x \in CollIds :
        (coll[x].state = "alive" /\ Quiescent(x)) =>
            ~U64Less(coll[x].last_end_time_micros, coll[x].last_start_time_micros)

\* C15 witness: a collector has completed two scans, the last one from clock
\* 1 second to clock 10 seconds, and no thread is in its critical section.
C15_Witness ==
    \E x \in CollIds :
        /\ coll[x].state = "alive" /\ Quiescent(x)
        /\ coll[x].saved_stats.ends = 2
        /\ coll[x].last_start_time_micros = MicrosPerSecond
        /\ coll[x].last_end_time_micros = PessimisticEnd

-----------------------------------------------------------------------------
(* C16 *)

\* the last call thread t completed
LastCallOf(t, i) ==
    /\ i \in LogIdx /\ Log[i].t = t
    /\ \A j \in LogIdx : Log[j].t = t => j <= i

\* where thread t is in its critical section, and what it has done there so
\* far: nothing yet; last_start_time_micros_ and BeginCollection; then the
\* traversal; then last_end_time_micros_ and EndCollection, or, on the other
\* branch, SkippedCollection alone
StepsInOrder(t) ==
    LET x == th[t].x
        p == th[t].pre
        begun == BeginCollection(p.saved_stats, th[t].start)
        traversed == ApplyToAllEntries(begun, NumEntries(coll[x].cache))
    IN  /\ th[t].pc = "st_check" => mutex[x] = t
        /\ th[t].pc = "st_traverse" =>
              /\ mutex[x] = t
              /\ coll[x].last_start_time_micros = th[t].start
              /\ coll[x].last_end_time_micros = p.last_end_time_micros
              /\ coll[x].saved_stats = begun
        /\ th[t].pc = "st_end" =>
              /\ mutex[x] = t
              /\ coll[x].last_start_time_micros = th[t].start
              /\ coll[x].last_end_time_micros = p.last_end_time_micros
              /\ coll[x].saved_stats = traversed
        /\ th[t].pc = "st_copy" =>
              /\ mutex[x] = t
              /\ IF th[t].scanned
                 THEN /\ coll[x].last_start_time_micros = th[t].start
                      /\ coll[x].saved_stats =
                            EndCollection(traversed, coll[x].last_end_time_micros)
                 ELSE /\ coll[x].last_start_time_micros = p.last_start_time_micros
                      /\ coll[x].last_end_time_micros = p.last_end_time_micros
                      /\ coll[x].saved_stats = SkippedCollection(p.saved_stats)

\* C16: a GetStats call holds the collector's mutex from before its check
\* until after its copy, and in between does either the steps of a scan, in
\* their order and once each, or one SkippedCollection and nothing else; the
\* value the caller gets is the saved stats after that.
C16_ScanOrSkip ==
    /\ \A t \in Threads : StepsInOrder(t)
    /\ \A i \in LogIdx :
          IF Log[i].scanned
          THEN ScannedOnce(i)
          ELSE Log[i].stats = SkippedCollection(Log[i].pre.saved_stats)
    /\ \A t \in Threads : \A i \in LogIdx :
          (th[t].pc = "idle" /\ LastCallOf(t, i)) => out[t] = Log[i].stats

\* C16 witness: one thread has completed a call that scanned, and another a
\* later call on the same collector that skipped.
C16_Witness ==
    \E i, j \in LogIdx :
        /\ i < j /\ Log[i].x = Log[j].x /\ Log[i].t # Log[j].t
        /\ ScannedOnce(i)
        /\ ~Log[j].scanned
        /\ Log[j].stats = SkippedCollection(Log[i].stats)
        /\ out[Log[j].t] = Log[j].stats

-----------------------------------------------------------------------------
(* C17 *)

\* thread t is in the section of GetShared that is under static_mutex: the
\* second Lookup, the construction and the Insert
InCreation(t) == th[t].pc \in {"gs_relookup", "gs_insert"}

\* C17, as stated: one lock for all kinds, so no two threads are in the
\* locked section of GetShared at the same time.
C17_OneLockForAllKinds ==
    \A t, u \in Threads : (t # u /\ InCreation(t)) => ~InCreation(u)

\* C17, amended: one lock for each kind, whatever the cache: a thread in the
\* locked section holds the static_mutex of its kind, so two threads in the
\* locked section at the same time are creating collectors of different
\* kinds; and a thread waiting for the lock waits only for a thread of its
\* own kind.
C17_OneLockPerKind ==
    /\ \A t \in Threads : InCreation(t) => static_mutex[th[t].kind] = t
    /\ \A t, u \in Threads :
          (t # u /\ InCreation(t) /\ InCreation(u)) => th[t].kind # th[u].kind
    /\ \A t \in Threads :
          (/\ th[t].pc = "gs_lock"
           /\ \A u \in Threads : InCreation(u) => th[u].kind # th[t].kind) =>
              ENABLED GS_Lock(t)

\* C17 witness: two threads have both found the key of one kind absent, in
\* two different caches; one is in the locked section and the other is
\* waiting for the lock.
C17_Witness ==
    \E t, u \in Threads :
        /\ InCreation(t) /\ th[u].pc = "gs_lock"
        /\ th[t].kind = th[u].kind /\ th[t].cache # th[u].cache
        /\ static_mutex[th[t].kind] = t
        /\ ~ENABLED GS_Lock(u)

-----------------------------------------------------------------------------
(* GetShared and GetStats under fair scheduling: each thread gets a        *)
(* collector, calling GetShared again when Insert has failed, and calls    *)
(* GetStats on it.  A thread that is inside a call and can take its next   *)
(* step takes it in the end; a mutex that is free again and again is       *)
(* granted to a thread that waits for it; a traversal ends.                *)

LivePairs == {<<"c1", "A">>, <<"c1", "B">>}
LiveTimes == {0}

LiveGetShared ==
    \E t \in Threads :
        \/ \E p \in LivePairs :
              /\ ptr[t] = 0
              /\ Sum(calls.shared, Threads) < LiveSharedCalls
              /\ GS_Call(t, p[1], p[2])
        \/ GS_Lookup(t)
        \/ GS_Lock(t)
        \/ GS_Relookup(t)
        \/ \E ok \in BOOLEAN : GS_Insert(t, ok)
        \/ GS_Wrap(t)

LiveStats ==
    \E t \in Threads :
        \/ calls.stats < LiveStatsCalls /\ ST_Call(t, DefaultMaxAge)
        \/ ST_Lock(t)
        \/ \E r \in LiveTimes : ST_Check(t, r)
        \/ ST_Traverse(t)
        \/ \E r \in LiveTimes : ST_End(t, r)
        \/ ST_Copy(t)

NextLive == LiveGetShared \/ LiveStats

\* the steps of thread t inside a call, but for the waits on a mutex
Proceed(t) ==
    \/ GS_Lookup(t)
    \/ GS_Relookup(t)
    \/ \E ok \in BOOLEAN : GS_Insert(t, ok)
    \/ GS_Wrap(t)
    \/ \E r \in LiveTimes : ST_Check(t, r)
    \/ ST_Traverse(t)
    \/ \E r \in LiveTimes : ST_End(t, r)
    \/ ST_Copy(t)

Fairness ==
    \A t \in Threads :
        /\ WF_vars(Proceed(t))
        /\ SF_vars(GS_Lock(t))
        /\ SF_vars(ST_Lock(t))

SpecLive == Init /\ [][NextLive]_vars /\ Fairness

-----------------------------------------------------------------------------
(* C18 *)

\* C18: under fair scheduling, a thread that is inside GetShared or GetStats
\* returns from it.
C18_EveryCallReturns ==
    \A t \in Threads : (th[t].pc # "idle") ~> (th[t].pc = "idle")

\* C18 witness: both threads have returned from everything they called: a
\* GetShared call whose Insert failed, the GetShared calls that gave both a
\* guard on one collector, and GetStats calls on it that overlapped, so that
\* one of them waited for mutex_.
C18_Witness ==
    \E t, u \in Threads :
        /\ t # u /\ th[t].pc = "idle" /\ th[u].pc = "idle"
        /\ status[t] = "ok" /\ status[u] = "ok"
        /\ NeverInserted(th[t].cache, th[t].kind) # {}
        /\ ptr[t] # 0 /\ ptr[u] # 0 /\ guards[ptr[t]].coll = guards[ptr[u]].coll
        /\ \E i, j \in LogIdx :
              /\ i < j /\ Log[i].t = t /\ Log[j].t = u
              /\ Log[i].x = Log[j].x
              /\ Log[i].raced /\ Log[j].raced
              /\ Log[i].scanned

-----------------------------------------------------------------------------
(* C19 *)

\* the caller's staleness limit, in microseconds
AgeLimit(i) == Log[i].age * MicrosPerSecond

\* C19, as stated: a call with a non-negative maximum age that skips copies
\* out the result of a completed scan that ended no longer before the call's
\* clock reading than the maximum age, never the Stats of a collector that
\* has not scanned.
C19_SkipWithinAge ==
    \A i \in LogIdx :
        (Log[i].age >= 0 /\ ~Log[i].scanned) =>
            /\ AfterAScan(i)
            /\ Log[i].stats.ends >= 1
            /\ SinceLastEnd(i) >= 0 /\ SinceLastEnd(i) <= AgeLimit(i)

-----------------------------------------------------------------------------
(* C20 *)

\* collector x belongs to the cache: it is the entry under its key, or an
\* entry that left the table with handles still out
OwnedByCache(x) ==
    coll[x].inserted /\ (InTable(table, coll, x) \/ refs[x] > 0)

\* C20, as stated: a collector constructed in a GetShared call belongs to the
\* cache or has been destroyed once the call has gone past its Insert.
C20_OwnedOrDestroyed ==
    \A x \in CollIds :
        coll[x].state # "none" => OwnedByCache(x) \/ coll[x].state = "deleted"

=============================================================================
